---- MODULE Spec2Model ----
(***************************************************************************)
(* Model of components/commands/commands.c: the serial command interpreter *)
(* (tokenizer parse_input, dispatcher process_command, the handlers and    *)
(* mac_to_string).                                                         *)
(*                                                                         *)
(* Characters are their ASCII codes.  A C array char buf[N] is a sequence  *)
(* of length N; C index i is sequence index i + 1.  A C string argument is *)
(* the sequence of its characters before the terminating zero.             *)
(* The target is the ESP32 (ILP32): unsigned long and uint32_t are 32 bits *)
(* wide.  TLC's integers are narrower than that, so a 32-bit unsigned      *)
(* value is kept as two 16-bit limbs [hi, lo], value = hi * 65536 + lo.    *)
(* The state variables hold arrays and strings packed (see Pack); InMsg,   *)
(* OutMsg, StrBuffer, Cmd, ... are the plain arrays they stand for.         *)
(***************************************************************************)
EXTENDS Integers, Sequences, FiniteSets, TLC

VARIABLES
  pc,              \* position of the running call
  in_msg,          \* process_command / parse_input: the input C string
  in_null,         \* in_msg is the NULL pointer
  out_null,        \* out_msg is the NULL pointer
  out_msg,         \* the caller's output buffer, MSG_BUFFER_LENGTH bytes
  out_prev,        \* contents of out_msg when the call was made
  str_buffer,      \* process_command's local str_buffer
  cmd,             \* the Command structure
  cmd_prev,        \* contents of the Command when parse_input was entered
  parse_ret,       \* value returned by parse_input
  command_result,  \* process_command's local command_result
  ret,             \* value returned by process_command
  ext,             \* values the external collaborators returned in this call
  at_src,          \* parse_input's locals
  at_dst,
  has_split,
  target,
  mac,             \* mac_to_string: the six input bytes
  mac_i,           \* mac_to_string: loop counter i
  mac_at,          \* mac_to_string: write position at
  mac_out,         \* mac_to_string: the output array
  mac_prev         \* contents of the output array when mac_to_string was entered

vars == <<pc, in_msg, in_null, out_null, out_msg, out_prev, str_buffer, cmd,
          cmd_prev, parse_ret, command_result, ret, ext, at_src, at_dst,
          has_split, target, mac, mac_i, mac_at, mac_out, mac_prev>>

---------------------------------------------------------------------------
(* Bounds of the model *)

\* Capacity of every message buffer.  commands.h, which sets the real value,
\* is a header outside the translated file; the model runs with a reduced
\* capacity that still holds every fixed response (the longest is the 21
\* characters of the mac response) and a 35-character binary literal.
MSG_BUFFER_LENGTH == 40

\* Longest argument of the exhaustively enumerated `dec` arguments.
MaxArgLen == 3

\* Longest input of the exhaustively enumerated tokenizer inputs.
MaxScanLen == 4

---------------------------------------------------------------------------
(* C library and language primitives used by the code *)

Zeros(n) == [i \in 1..n |-> 0]

Fill(c, n) == [i \in 1..n |-> c]

\* s[i] of a C string s (0-based); the terminator is read at i = strlen(s).
CharAt(s, i) == IF i < Len(s) THEN s[i + 1] ELSE 0

\* strlen of the string held in array buf (scan to the first zero byte).
StrLen(buf) ==
  IF \E i \in 1..Len(buf) : buf[i] = 0
  THEN (CHOOSE i \in 1..Len(buf) : buf[i] = 0 /\ \A j \in 1..(i - 1) : buf[j] # 0) - 1
  ELSE Len(buf)

\* The C string held in array buf.
CStr(buf) == SubSeq(buf, 1, StrLen(buf))

\* memset(buf, 0, n) over an array of n bytes.
MemSet0(buf, n) == [i \in 1..Len(buf) |-> IF i <= n THEN 0 ELSE buf[i]]

\* strcpy(dst + off, s): the characters of s and the terminator; the other
\* bytes of dst keep their value.
StrCpyAt(dst, off, s) ==
  [i \in 1..Len(dst) |->
     IF i > off /\ i <= off + Len(s) THEN s[i - off]
     ELSE IF i = off + Len(s) + 1 THEN 0
     ELSE dst[i]]

StrCpy(dst, s) == StrCpyAt(dst, 0, s)

\* strncpy(dst, src, n) from array src: the characters of the string in src,
\* at most n, then zero bytes up to n bytes in all.
StrNCpy_NoPad(dst, src, n) ==
  [i \in 1..Len(dst) |->
     IF i <= n /\ i <= StrLen(src) THEN src[i]
     ELSE IF i = StrLen(src) + 1 /\ i <= n THEN 0
     ELSE dst[i]]

StrNCpy(dst, src, n) ==
  [i \in 1..Len(dst) |->
     IF i <= n THEN (IF i <= StrLen(src) THEN src[i] ELSE 0) ELSE dst[i]]

\* snprintf(dst, n, ...) where the formatted text is `text`: at most n - 1
\* characters of it and a terminator.
SnPrintf(dst, n, text) ==
  LET k == IF Len(text) < n - 1 THEN Len(text) ELSE n - 1
  IN  [i \in 1..Len(dst) |->
         IF i <= k THEN text[i] ELSE IF i = k + 1 THEN 0 ELSE dst[i]]

\* tolower in the C locale.
ToLower_Identity(c) == c

ToLower(c) == IF c >= 65 /\ c <= 90 THEN c + 32 ELSE c

\* isspace in the C locale: space, \t \n \v \f \r.
IsSpace(c) == c = 32 \/ (c >= 9 /\ c <= 13)

\* Decimal text of a non-negative integer, as printf's %u / %lld give it.
RECURSIVE DecStr(_)
DecStr(n) == IF n < 10 THEN <<48 + n>> ELSE DecStr(n \div 10) \o <<48 + (n % 10)>>

---------------------------------------------------------------------------
(* strtoul (newlib), on 32-bit unsigned long held as limbs [hi, lo] *)

U32(hi, lo) == [hi |-> hi, lo |-> lo]

ULONG_MAX == U32(65535, 65535)

\* -acc in 32-bit unsigned arithmetic.
U32Neg(a) ==
  IF a.hi = 0 /\ a.lo = 0 THEN a
  ELSE U32((65535 - a.hi + (IF a.lo = 0 THEN 1 ELSE 0)) % 65536, (65536 - a.lo) % 65536)

\* Value of character c as a digit; 99 for a character that is no digit of
\* any base.
DigitVal(c) ==
  IF c >= 48 /\ c <= 57 THEN c - 48
  ELSE IF c >= 65 /\ c <= 90 THEN c - 55
  ELSE IF c >= 97 /\ c <= 122 THEN c - 87
  ELSE 99

\* The digit loop: consumes digits of `base` from position i; any = 1 once a
\* digit was taken, -1 once the value passed ULONG_MAX (acc > cutoff, or
\* acc = cutoff and digit > cutlim, which is acc * base + digit > ULONG_MAX).
RECURSIVE Accumulate(_, _, _, _, _)
Accumulate(s, i, base, acc, any) ==
  LET d  == DigitVal(CharAt(s, i))
      lo == acc.lo * base + d
      hi == acc.hi * base + (lo \div 65536)
  IN  IF d >= base THEN [acc |-> acc, any |-> any, i |-> i]
      ELSE IF any < 0 \/ hi > 65535 THEN Accumulate(s, i + 1, base, acc, -1)
      ELSE Accumulate(s, i + 1, base, U32(hi, lo % 65536), 1)

RECURSIVE SkipSpace(_, _)
SkipSpace(s, i) == IF IsSpace(CharAt(s, i)) THEN SkipSpace(s, i + 1) ELSE i

\* strtoul(s, &end, base) for base in {2, 8, 10, 16}: [val, end], end being
\* the offset of *end from s.  Leading white space and one sign are accepted,
\* and for base 16 a "0x"/"0X" prefix; with no digit taken end = s.
Strtoul(s, base) ==
  LET i0  == SkipSpace(s, 0)
      neg == CharAt(s, i0) = 45
      i1  == IF CharAt(s, i0) \in {43, 45} THEN i0 + 1 ELSE i0
      i2  == IF base = 16 /\ CharAt(s, i1) = 48 /\ CharAt(s, i1 + 1) \in {88, 120}
             THEN i1 + 2 ELSE i1
      r   == Accumulate(s, i2, base, U32(0, 0), 0)
  IN  [val |-> IF r.any < 0 THEN ULONG_MAX
               ELSE IF neg THEN U32Neg(r.acc) ELSE r.acc,
       end |-> IF r.any # 0 THEN r.i ELSE 0]

---------------------------------------------------------------------------
(* The Command structure and the tokenizer, parse_input *)

\* init_Command: key = COMMAND_UNKNOWN, both arrays zeroed.
InitCommand ==
  [key      |-> "COMMAND_UNKNOWN",
   command  |-> Zeros(MSG_BUFFER_LENGTH),
   argument |-> Zeros(MSG_BUFFER_LENGTH)]

\* The length check of parse_input: len >= MSG_BUFFER_LENGTH.
TooLong_OffByOne(len) == len > MSG_BUFFER_LENGTH

TooLong(len) == len >= MSG_BUFFER_LENGTH

\* The case labels of the scan's switch: ' ' and '\t'.
IsSplitChar(c) == c = 32 \/ c = 9

\* One iteration of the scan loop on character c.  st holds the Command and
\* the locals at_dst, has_split and target.
ScanStep_DropSpace(st, c) ==
  IF IsSplitChar(c)
  THEN [st EXCEPT !.has_split = 1, !.target = "argument",
                  !.at_dst = IF st.has_split = 0 THEN 0 ELSE @]
  ELSE [st EXCEPT !.cmd[st.target][st.at_dst + 1] =
                     IF st.has_split = 1 THEN c ELSE ToLower(c),
                  !.at_dst = @ + 1]

ScanStep(st, c) ==
  IF IsSplitChar(c) /\ st.has_split = 0
  THEN [st EXCEPT !.has_split = 1, !.target = "argument", !.at_dst = 0]
  ELSE [st EXCEPT !.cmd[st.target][st.at_dst + 1] =
                     IF st.has_split = 1 THEN c ELSE ToLower(c),
                  !.at_dst = @ + 1]

\* The locals as the loop is entered.
ScanStart(c0) ==
  [cmd |-> c0, at_dst |-> 0, has_split |-> 0, target |-> "command"]

\* The whole loop, from character at (0-based) on.
RECURSIVE ScanFrom(_, _, _)
ScanFrom(st, s, at) ==
  IF at < Len(s) THEN ScanFrom(ScanStep(st, s[at + 1]), s, at + 1) ELSE st

\* The strcmp chain that sets the key; no match leaves the key as it is.
MatchKey_Prefix(command, key) ==
  LET n == CStr(command)
      Starts(w) == Len(n) >= Len(w) /\ SubSeq(n, 1, Len(w)) = w
  IN  IF Starts(<<109, 97, 99>>) THEN "COMMAND_MAC"
      ELSE IF Starts(<<105, 100>>) THEN "COMMAND_ID"
      ELSE IF Starts(<<115, 116, 97, 116, 117, 115>>) THEN "COMMAND_STATUS"
      ELSE IF Starts(<<100, 101, 99>>) THEN "COMMAND_DEC"
      ELSE key

MatchKey(command, key) ==
  LET n == CStr(command)
  IN  IF n = <<109, 97, 99>> THEN "COMMAND_MAC"                         \* "mac"
      ELSE IF n = <<105, 100>> THEN "COMMAND_ID"                        \* "id"
      ELSE IF n = <<115, 116, 97, 116, 117, 115>> THEN "COMMAND_STATUS" \* "status"
      ELSE IF n = <<100, 101, 99>> THEN "COMMAND_DEC"                   \* "dec"
      ELSE key

\* parse_input(in_msg, out_cmd) for non-null pointers: [ret, cmd].
ParseInput(s, c0) ==
  IF TooLong(Len(s)) THEN [ret |-> -2, cmd |-> c0]
  ELSE LET st == ScanFrom(ScanStart(InitCommand), s, 0)
       IN  [ret |-> 0,
            cmd |-> [st.cmd EXCEPT !.key = MatchKey(st.cmd.command, @)]]

---------------------------------------------------------------------------
(* mac_to_string and the handlers *)

\* "0123456789ABCDEF"
HexMap == <<48, 49, 50, 51, 52, 53, 54, 55, 56, 57, 65, 66, 67, 68, 69, 70>>

\* One iteration of mac_to_string's loop: byte b = mac[i], written at
\* out[off + at ...]; returns the array and the new at.
MacStep_TrailingSep(out, off, at, i, b) ==
  LET lo == b % 16
      hi == (b \div 16) % 16
      o1 == [out EXCEPT ![off + at + 1] = HexMap[hi + 1], ![off + at + 2] = HexMap[lo + 1]]
  IN  [out |-> [o1 EXCEPT ![off + at + 3] = 58], at |-> at + 3]

MacStep(out, off, at, i, b) ==
  LET lo == b % 16                \* mac[i] & 0x0F
      hi == (b \div 16) % 16      \* (mac[i] & 0xF0) >> 4
      o1 == [out EXCEPT ![off + at + 1] = HexMap[hi + 1], ![off + at + 2] = HexMap[lo + 1]]
  IN  IF i < 5 THEN [out |-> [o1 EXCEPT ![off + at + 3] = 58], at |-> at + 3]
      ELSE [out |-> o1, at |-> at + 2]

RECURSIVE MacLoopFrom(_, _, _, _, _)
MacLoopFrom(out, off, at, i, m) ==
  IF i < 6
  THEN LET r == MacStep(out, off, at, i, m[i + 1])
       IN  MacLoopFrom(r.out, off, r.at, i + 1, m)
  ELSE out

\* mac_to_string(mac, out + off) for non-null pointers.
MacToString(m, out, off) == MacLoopFrom(out, off, 0, 0, m)

\* process_cmd_mac; m is what esp_read_mac stored in local_mac.
ProcessCmdMac(c, buf, m) ==
  [ret |-> 0, out |-> MacToString(m, StrCpy(buf, <<77, 65, 67, 32>>), 4)]

\* process_cmd_id
ProcessCmdId(c, buf) ==
  [ret |-> 0,
   out |-> StrCpy(buf, <<73, 68, 58, 32, 111, 116, 102, 50, 64, 104, 105, 46, 105, 115>>)]

\* process_cmd_status; time_s, cores and heap_size as the SDK returned them.
ProcessCmdStatus(c, buf, time_s, cores, heap_size) ==
  [ret |-> 0,
   out |-> SnPrintf(buf, MSG_BUFFER_LENGTH,
             <<83, 89, 83, 84, 69, 77, 95, 85, 80, 84, 73, 77, 69, 58, 32>>
             \o DecStr(time_s)
             \o <<32, 83, 32, 10, 65, 86, 65, 73, 76, 65, 66, 76, 69, 32,
                  67, 79, 82, 69, 83, 58, 32>>
             \o DecStr(cores)
             \o <<32, 10, 65, 86, 65, 73, 76, 65, 66, 76, 69, 32, 72, 69, 65,
                  80, 32, 77, 69, 77, 79, 82, 89, 58, 32>>
             \o DecStr(heap_size))]

\* "ARGUMENT ERROR"
ArgumentError == <<65, 82, 71, 85, 77, 69, 78, 84, 32, 69, 82, 82, 79, 82>>

\* The base process_cmd_dec selects from the argument's first two characters.
DecBase_NoOctal(num) ==
  IF CharAt(num, 0) = 48 /\ Len(num) > 1
  THEN (IF CharAt(num, 1) = 98 THEN 2 ELSE IF CharAt(num, 1) = 120 THEN 16 ELSE 10)
  ELSE 10

DecBase(num) ==
  IF CharAt(num, 0) = 48 /\ Len(num) > 1
  THEN (IF CharAt(num, 1) = 98 THEN 2 ELSE IF CharAt(num, 1) = 120 THEN 16 ELSE 8)
  ELSE 10

\* process_cmd_dec
ProcessCmdDec(c, buf) ==
  LET num  == CStr(c.argument)
      base == DecBase(num)
      skip == IF base = 10 THEN 0 ELSE IF base = 8 THEN 1 ELSE 2
      r    == Strtoul(SubSeq(num, skip + 1, Len(num)), base)
      end  == skip + r.end
  IN  [ret |-> 0,
       out |-> IF end = 0 \/ CharAt(num, end) # 0 THEN StrCpy(buf, ArgumentError)
               ELSE IF r.val.hi > 0 THEN StrCpy(buf, ArgumentError)
               ELSE SnPrintf(buf, MSG_BUFFER_LENGTH, DecStr(r.val.lo))]

---------------------------------------------------------------------------
(* The dispatcher, process_command *)

NoExt == [mac |-> <<0, 0, 0, 0, 0, 0>>, time_s |-> 0, cores |-> 0, heap_size |-> 0]

\* The switch on cmd.key: [ret, out], out being str_buffer afterwards.
Dispatch(c, buf, e) ==
  CASE c.key = "COMMAND_MAC"    -> ProcessCmdMac(c, buf, e.mac)
    [] c.key = "COMMAND_ID"     -> ProcessCmdId(c, buf)
    [] c.key = "COMMAND_STATUS" -> ProcessCmdStatus(c, buf, e.time_s, e.cores, e.heap_size)
    [] c.key = "COMMAND_DEC"    -> ProcessCmdDec(c, buf)
    [] OTHER                    -> [ret |-> 1, out |-> buf]

\* The tail of process_command after a handler returned 0: the terminator
\* forced into str_buffer's last byte, then strncpy to the caller's buffer.
CopyOut(out, buf) ==
  StrNCpy(out, [buf EXCEPT ![MSG_BUFFER_LENGTH] = 0], MSG_BUFFER_LENGTH)

\* process_command(in_msg, out_msg) for non-null pointers, as one function
\* of the input, the caller's buffer and the collaborators' values:
\* [status, out].  The value parse_input returns is not used.
ProcessCommand(s, out, e) ==
  LET p == ParseInput(s, InitCommand)
      d == Dispatch(p.cmd, Zeros(MSG_BUFFER_LENGTH), e)
  IN  IF d.ret # 0 THEN [status |-> d.ret, out |-> out]
      ELSE [status |-> 0, out |-> CopyOut(out, d.out)]

---------------------------------------------------------------------------
(* Inputs of the checked calls *)

\* The four command words: "mac", "id", "status", "dec".
KnownWords ==
  {<<109, 97, 99>>, <<105, 100>>, <<115, 116, 97, 116, 117, 115>>, <<100, 101, 99>>}

\* Every upper/lower-case variation of a lower-case word.
CaseVariants(w) ==
  {[i \in 1..Len(w) |-> w[i] - 32 * f[i]] : f \in [1..Len(w) -> {0, 1}]}

\* Words that are no command: "", "foobar", "ma", "macx", "de", "decx", "xid".
UnknownWords ==
  {<<>>, <<102, 111, 111, 98, 97, 114>>, <<109, 97>>, <<109, 97, 99, 120>>,
   <<100, 101>>, <<100, 101, 99, 120>>, <<120, 105, 100>>}

\* What follows the word: nothing, " ", " 0x10", "\t7", "\n", " a B".
Tails ==
  {<<>>, <<32>>, <<32, 48, 120, 49, 48>>, <<9, 55>>, <<10>>, <<32, 97, 32, 66>>}

\* Characters of the exhaustively enumerated arguments: 0 1 9 x b - space f.
ArgAlphabet == {48, 49, 57, 120, 98, 45, 32, 102}

ShortArgs == UNION {[1..n -> ArgAlphabet] : n \in 0..MaxArgLen}

\* Arguments at the edges of the bases, the 16-bit range and the 32-bit
\* accumulator, and malformed ones.
EdgeArgs ==
  {
   <<54, 53, 53, 51, 53>>,   \* 65535
   <<54, 53, 53, 51, 54>>,   \* 65536
   <<57, 57, 57, 57, 57>>,   \* 99999
   <<52, 50, 57, 52, 57, 54, 55, 50, 57, 53>>,   \* 4294967295
   <<52, 50, 57, 52, 57, 54, 55, 50, 57, 54>>,   \* 4294967296
   <<57, 57, 57, 57, 57, 57, 57, 57, 57, 57, 57>>,   \* 99999999999
   <<48>>,   \* 0
   <<48, 48>>,   \* 00
   <<48, 48, 55>>,   \* 007
   <<48, 49, 48>>,   \* 010
   <<48, 49, 55, 55, 55, 55, 55>>,   \* 0177777
   <<48, 50, 48, 48, 48, 48, 48>>,   \* 0200000
   <<48, 51, 55, 55, 55, 55, 55, 55, 55, 55, 55, 55>>,   \* 037777777777
   <<48, 52, 48, 48, 48, 48, 48, 48, 48, 48, 48, 48>>,   \* 040000000000
   <<48, 120, 49, 48>>,   \* 0x10
   <<48, 120, 70, 70, 70, 70>>,   \* 0xFFFF
   <<48, 120, 102, 102, 102, 102>>,   \* 0xffff
   <<48, 120, 49, 48, 48, 48, 48>>,   \* 0x10000
   <<48, 120, 70, 70, 70, 70, 70, 70, 70, 70>>,   \* 0xFFFFFFFF
   <<48, 120, 49, 48, 48, 48, 48, 48, 48, 48, 48>>,   \* 0x100000000
   <<48, 120, 48, 98, 49>>,   \* 0x0b1
   <<48, 120, 65, 98, 67>>,   \* 0xAbC
   <<48, 98, 49, 48, 49>>,   \* 0b101
   <<48, 98, 49, 49, 49, 49, 49, 49, 49, 49, 49, 49, 49, 49, 49, 49, 49, 49>>,   \* 0b1111111111111111
   <<48, 98, 49, 48, 48, 48, 48, 48, 48, 48, 48, 48, 48, 48, 48, 48, 48, 48, 48>>,   \* 0b10000000000000000
   <<48, 98, 49, 49, 49, 49, 49, 49, 49, 49, 49, 49, 49, 49, 49, 49, 49, 49, 49, 49, 49, 49, 49, 49, 49, 49, 49, 49, 49, 49, 49, 49, 49, 49>>,   \* 0b11111111111111111111111111111111
   <<48, 98, 49, 48, 48, 48, 48, 48, 48, 48, 48, 48, 48, 48, 48, 48, 48, 48, 48, 48, 48, 48, 48, 48, 48, 48, 48, 48, 48, 48, 48, 48, 48, 48, 48>>,   \* 0b100000000000000000000000000000000
   <<48, 120>>,   \* 0x
   <<48, 98>>,   \* 0b
   <<48, 120, 48, 120, 49, 48>>,   \* 0x0x10
   <<43, 53>>,   \* +5
   <<45, 49>>,   \* -1
   <<45, 48>>,   \* -0
   <<32, 53>>,   \*  5
   <<45, 52, 50, 57, 52, 57, 54, 55, 50, 57, 53>>,   \* -4294967295
   <<48, 120, 43, 53>>,   \* 0x+5
   <<48, 120, 45, 49>>,   \* 0x-1
   <<48, 120, 32, 49, 48>>,   \* 0x 10
   <<48, 32, 53>>,   \* 0 5
   <<48, 57>>,   \* 09
   <<48, 56>>,   \* 08
   <<48, 88, 49, 48>>,   \* 0X10
   <<48, 66, 49>>,   \* 0B1
   <<97, 98, 99>>,   \* abc
   <<49, 50, 97>>,   \* 12a
   <<49, 32>>,   \* 1 
   <<48, 120, 103>>,   \* 0xg
   <<48, 98, 50>>,   \* 0b2
   <<49, 10>>,   \* 1\n
   <<9, 49>>   \* \t1
  }

DecArgs == ShortArgs \cup EdgeArgs

\* Inputs whose length is MSG_BUFFER_LENGTH - 1, MSG_BUFFER_LENGTH and
\* MSG_BUFFER_LENGTH + 1.
LongInputs ==
  UNION {{Fill(97, n),
          <<100, 101, 99, 32>> \o Fill(49, n - 4),
          <<109, 97, 99>> \o Fill(32, n - 3),
          <<105, 100, 9>> \o Fill(90, n - 3)}
         : n \in (MSG_BUFFER_LENGTH - 1)..(MSG_BUFFER_LENGTH + 1)}

Inputs ==
  {w \o t : w \in (UNION {CaseVariants(k) : k \in KnownWords}) \cup UnknownWords,
            t \in Tails}
  \cup {<<100, 101, 99, 32>> \o a : a \in {a \in DecArgs : Len(a) + 4 < MSG_BUFFER_LENGTH}}
  \cup LongInputs

\* Contents the caller's buffer can hold when the call is made: zeroes, bytes
\* with no terminator at all, and an earlier response filling the buffer.
PriorOut ==
  {Zeros(MSG_BUFFER_LENGTH),
   Fill(90, MSG_BUFFER_LENGTH),
   Fill(35, MSG_BUFFER_LENGTH - 1) \o <<0>>}

\* Contents of the uninitialised locals (str_buffer, cmd's arrays) on entry.
StackGarbage == {Zeros(MSG_BUFFER_LENGTH), Fill(255, MSG_BUFFER_LENGTH)}

\* Values the collaborators return.
MacValues == {<<1, 2, 171, 205, 239, 0>>, <<255, 16, 9, 160, 90, 127>>}
UptimeValues == {0, 86400}
CoreValues == {1, 2}
HeapValues == {200000}

---------------------------------------------------------------------------
(* Arrays in the state *)

\* The state holds an array with a long run of one byte at its end as
\* [n, data, fill]: n bytes, those of data followed by the byte fill repeated.
\* Pack and Unpack convert; every operator above works on the plain array.
Pack(s) ==
  LET f == IF s = <<>> THEN 0 ELSE s[Len(s)]
      k == IF \E i \in 1..Len(s) : s[i] # f
           THEN CHOOSE i \in 1..Len(s) : s[i] # f /\ \A j \in (i + 1)..Len(s) : s[j] = f
           ELSE 0
  IN  IF Len(s) - k >= 8
      THEN [n |-> Len(s), data |-> SubSeq(s, 1, k), fill |-> f]
      ELSE [n |-> Len(s), data |-> s, fill |-> 0]

Unpack(b) == b.data \o Fill(b.fill, b.n - Len(b.data))

PackCmd(c) ==
  [key |-> c.key, command |-> Pack(c.command), argument |-> Pack(c.argument)]

UnpackCmd(c) ==
  [key |-> c.key, command |-> Unpack(c.command), argument |-> Unpack(c.argument)]

InMsg == Unpack(in_msg)
OutMsg == Unpack(out_msg)
OutPrev == Unpack(out_prev)
StrBuffer == Unpack(str_buffer)
Cmd == UnpackCmd(cmd)
CmdPrev == UnpackCmd(cmd_prev)
MacOut == Unpack(mac_out)
MacPrev == Unpack(mac_prev)

---------------------------------------------------------------------------
(* Spec: one call of process_command *)

MacIdle ==
  /\ mac = <<0, 0, 0, 0, 0, 0>> /\ mac_i = 0 /\ mac_at = 0
  /\ mac_out = Pack(<<>>) /\ mac_prev = Pack(<<>>)

ScanIdle == at_src = -1 /\ at_dst = 0 /\ has_split = 0 /\ target = "command"

Init ==
  /\ pc = "call"
  /\ \/ /\ in_msg \in {Pack(s) : s \in Inputs}
        /\ in_null = FALSE /\ out_null = FALSE
     \/ /\ in_msg = Pack(<<>>)
        /\ \E n \in {<<TRUE, FALSE>>, <<FALSE, TRUE>>, <<TRUE, TRUE>>} :
              in_null = n[1] /\ out_null = n[2]
  /\ out_msg \in {Pack(b) : b \in PriorOut}
  /\ out_prev = out_msg
  /\ str_buffer \in {Pack(b) : b \in StackGarbage}
  /\ cmd \in {[key |-> k, command |-> str_buffer, argument |-> str_buffer]
               : k \in {"COMMAND_UNKNOWN", "COMMAND_DEC"}}
  /\ cmd_prev = PackCmd(InitCommand)
  /\ parse_ret = 0 /\ command_result = 0 /\ ret = 0
  /\ ext = NoExt
  /\ ScanIdle /\ MacIdle

ScanVars == <<at_src, at_dst, has_split, target>>
MacVars == <<mac, mac_i, mac_at, mac_out, mac_prev>>
CallerVars == <<in_msg, in_null, out_null, out_prev, cmd_prev>>

\* process_command entered with a NULL pointer: return -1.
EnterNull ==
  /\ pc = "call" /\ (in_null \/ out_null)
  /\ ret' = -1 /\ pc' = "done"
  /\ UNCHANGED <<out_msg, str_buffer, cmd, parse_ret, command_result, ext>>
  /\ UNCHANGED <<CallerVars, ScanVars, MacVars>>

\* process_command entered: str_buffer zeroed, init_Command(&cmd).
Enter ==
  /\ pc = "call" /\ ~in_null /\ ~out_null
  /\ str_buffer' = Pack(MemSet0(StrBuffer, MSG_BUFFER_LENGTH))
  /\ cmd' = PackCmd(InitCommand)
  /\ pc' = "parse"
  /\ UNCHANGED <<out_msg, parse_ret, command_result, ret, ext>>
  /\ UNCHANGED <<CallerVars, ScanVars, MacVars>>

\* parse_input(in_msg, &cmd); command_result = 0.
Parse ==
  /\ pc = "parse"
  /\ LET p == ParseInput(InMsg, Cmd)
     IN  cmd' = PackCmd(p.cmd) /\ parse_ret' = p.ret
  /\ command_result' = 0
  /\ pc' = "dispatch"
  /\ UNCHANGED <<out_msg, str_buffer, ret, ext>>
  /\ UNCHANGED <<CallerVars, ScanVars, MacVars>>

\* case COMMAND_MAC
HandleMac ==
  /\ pc = "dispatch" /\ Cmd.key = "COMMAND_MAC"
  /\ \E m \in MacValues :
       /\ ext' = [ext EXCEPT !.mac = m]
       /\ LET d == Dispatch(Cmd, StrBuffer, ext')
          IN  str_buffer' = Pack(d.out) /\ command_result' = d.ret
  /\ pc' = "check"
  /\ UNCHANGED <<out_msg, cmd, parse_ret, ret>>
  /\ UNCHANGED <<CallerVars, ScanVars, MacVars>>

\* case COMMAND_ID
HandleId ==
  /\ pc = "dispatch" /\ Cmd.key = "COMMAND_ID"
  /\ LET d == Dispatch(Cmd, StrBuffer, ext)
     IN  str_buffer' = Pack(d.out) /\ command_result' = d.ret
  /\ pc' = "check"
  /\ UNCHANGED <<out_msg, cmd, parse_ret, ret, ext>>
  /\ UNCHANGED <<CallerVars, ScanVars, MacVars>>

\* case COMMAND_STATUS
HandleStatus ==
  /\ pc = "dispatch" /\ Cmd.key = "COMMAND_STATUS"
  /\ \E t \in UptimeValues, n \in CoreValues, h \in HeapValues :
       /\ ext' = [ext EXCEPT !.time_s = t, !.cores = n, !.heap_size = h]
       /\ LET d == Dispatch(Cmd, StrBuffer, ext')
          IN  str_buffer' = Pack(d.out) /\ command_result' = d.ret
  /\ pc' = "check"
  /\ UNCHANGED <<out_msg, cmd, parse_ret, ret>>
  /\ UNCHANGED <<CallerVars, ScanVars, MacVars>>

\* case COMMAND_DEC
HandleDec ==
  /\ pc = "dispatch" /\ Cmd.key = "COMMAND_DEC"
  /\ LET d == Dispatch(Cmd, StrBuffer, ext)
     IN  str_buffer' = Pack(d.out) /\ command_result' = d.ret
  /\ pc' = "check"
  /\ UNCHANGED <<out_msg, cmd, parse_ret, ret, ext>>
  /\ UNCHANGED <<CallerVars, ScanVars, MacVars>>

\* default: command_result = 1
HandleDefault ==
  /\ pc = "dispatch"
  /\ Cmd.key \notin {"COMMAND_MAC", "COMMAND_ID", "COMMAND_STATUS", "COMMAND_DEC"}
  /\ LET d == Dispatch(Cmd, StrBuffer, ext)
     IN  str_buffer' = Pack(d.out) /\ command_result' = d.ret
  /\ pc' = "check"
  /\ UNCHANGED <<out_msg, cmd, parse_ret, ret, ext>>
  /\ UNCHANGED <<CallerVars, ScanVars, MacVars>>

\* if (command_result) return command_result;
ReturnError ==
  /\ pc = "check" /\ command_result # 0
  /\ ret' = command_result /\ pc' = "done"
  /\ UNCHANGED <<out_msg, str_buffer, cmd, parse_ret, command_result, ext>>
  /\ UNCHANGED <<CallerVars, ScanVars, MacVars>>

\* str_buffer[MSG_BUFFER_LENGTH - 1] = '\0'; strncpy(...); return 0;
ReturnOk ==
  /\ pc = "check" /\ command_result = 0
  /\ str_buffer' = Pack([StrBuffer EXCEPT ![MSG_BUFFER_LENGTH] = 0])
  /\ out_msg' = Pack(CopyOut(OutMsg, StrBuffer))
  /\ ret' = 0 /\ pc' = "done"
  /\ UNCHANGED <<cmd, parse_ret, command_result, ext>>
  /\ UNCHANGED <<CallerVars, ScanVars, MacVars>>

Next ==
  \/ EnterNull \/ Enter \/ Parse
  \/ HandleMac \/ HandleId \/ HandleStatus \/ HandleDec \/ HandleDefault
  \/ ReturnError \/ ReturnOk

Spec == Init /\ [][Next]_vars

---------------------------------------------------------------------------
(* Vocabulary of the properties, stated apart from the code's operators *)

\* The characters the tokenizer splits at, and the white-space characters.
SplitChars == {32, 9}
WhiteSpace == {9, 10, 11, 12, 13, 32}

\* Index of the first character of s that is in W; Len(s) + 1 when none is.
FirstIn(s, W) ==
  IF \E i \in 1..Len(s) : s[i] \in W
  THEN CHOOSE i \in 1..Len(s) : s[i] \in W /\ \A j \in 1..(i - 1) : s[j] \notin W
  ELSE Len(s) + 1

LowerCase(s) == [i \in 1..Len(s) |-> IF s[i] \in 65..90 THEN s[i] + 32 ELSE s[i]]

\* The command word and the argument of input s when W separates them.
WordOf(s, W) == LowerCase(SubSeq(s, 1, FirstIn(s, W) - 1))
ArgOf(s, W) == SubSeq(s, FirstIn(s, W) + 1, Len(s))

\* A string as the contents of a zero-filled buffer.
Padded(s) == s \o Zeros(MSG_BUFFER_LENGTH - Len(s))

\* A call with both buffers present has returned.
Returned == pc = "done" /\ ~in_null /\ ~out_null

\* The text in the caller's buffer.
Response == CStr(OutMsg)

\* The returned call was `dec` (any letter case) with argument a = DecArg.
DecCall ==
  /\ Returned /\ Len(InMsg) < MSG_BUFFER_LENGTH
  /\ WordOf(InMsg, SplitChars) = <<100, 101, 99>>
DecArg == ArgOf(InMsg, SplitChars)

\* The digits of a base.
DigitsOf(base) ==
  CASE base = 2  -> {48, 49}
    [] base = 8  -> 48..55
    [] base = 10 -> 48..57
    [] base = 16 -> (48..57) \cup (65..70) \cup (97..102)

IsDigits(s, base) == \A i \in 1..Len(s) : s[i] \in DigitsOf(base)

\* Base and length of the prefix of argument a: "0x" is base 16, "0b" base 2,
\* a leading "0" with more after it base 8, anything else base 10.
LitPrefix(a) ==
  IF Len(a) > 1 /\ a[1] = 48
  THEN (IF a[2] = 120 THEN [base |-> 16, skip |-> 2]
        ELSE IF a[2] = 98 THEN [base |-> 2, skip |-> 2]
        ELSE [base |-> 8, skip |-> 1])
  ELSE [base |-> 10, skip |-> 0]

\* What remains of a after its prefix.
LitRest(a) == SubSeq(a, LitPrefix(a).skip + 1, Len(a))

\* Value of a digit string in a base, every value above 0xFFFF given as 65536.
RECURSIVE ValueOf(_, _)
ValueOf(ds, base) ==
  IF ds = <<>> THEN 0
  ELSE LET c == ds[Len(ds)]
           d == IF c <= 57 THEN c - 48 ELSE IF c <= 70 THEN c - 55 ELSE c - 87
           v == ValueOf(SubSeq(ds, 1, Len(ds) - 1), base) * base + d
       IN  IF v > 65535 THEN 65536 ELSE v

\* r is the decimal representation of v: digits only, no leading zero.
IsDecimalOf(r, v) ==
  /\ Len(r) >= 1 /\ IsDigits(r, 10)
  /\ (Len(r) > 1 => r[1] # 48)
  /\ ValueOf(r, 10) = v

\* a is an optional prefix followed by one or more digits of its base.
WellFormed(a) == LitRest(a) # <<>> /\ IsDigits(LitRest(a), LitPrefix(a).base)

---------------------------------------------------------------------------
(* Properties of process_command *)

\* C1: an input of length >= MSG_BUFFER_LENGTH returns -2 and leaves the
\* caller's buffer as it was.  (Fails: the call returns 1.)
C1_OverflowReturnsMinus2 ==
  (Returned /\ Len(InMsg) >= MSG_BUFFER_LENGTH) => (ret = -2 /\ OutMsg = OutPrev)

\* What the code does for such an input: parse_input returns -2, which
\* process_command drops; the key stays COMMAND_UNKNOWN and the call returns 1
\* with the caller's buffer untouched.
OverflowObserved ==
  (Returned /\ Len(InMsg) >= MSG_BUFFER_LENGTH)
    => (parse_ret = -2 /\ ret = 1 /\ OutMsg = OutPrev)

\* C2: `dec` answers "ARGUMENT ERROR" with status 0 when the argument's rest
\* after the prefix is empty, or the digits at the start of the rest do not
\* reach its end (a character that is no digit of the base remains), or the
\* value is above 0xFFFF.  (Fails: "0x" and "0b" answer "0", and a character
\* that strtoul accepts before the digits does not remain either.)
C2_DecRejects ==
  (DecCall /\ (\/ LitRest(DecArg) = <<>>
               \/ ~IsDigits(LitRest(DecArg), LitPrefix(DecArg).base)
               \/ ValueOf(LitRest(DecArg), LitPrefix(DecArg).base) > 65535))
    => (ret = 0 /\ Response = ArgumentError)

\* The parts of C2 the code does keep: no argument at all, every value above
\* 0xFFFF, and a non-digit left after at least one digit (unless it is the
\* x of a second "0x", which strtoul takes as its own prefix).
DecRejectsObserved ==
  LET rest == LitRest(DecArg)
      base == LitPrefix(DecArg).base
  IN  (DecCall /\ (\/ DecArg = <<>>
                   \/ IsDigits(rest, base) /\ ValueOf(rest, base) > 65535
                   \/ /\ rest # <<>>
                      /\ rest[1] \in DigitsOf(base)
                      /\ ~IsDigits(rest, base)
                      /\ ~(base = 16 /\ CharAt(rest, 0) = 48 /\ CharAt(rest, 1) \in {88, 120})))
        => (ret = 0 /\ Response = ArgumentError)

\* The literal forms as C3 lists them: "0x" and hex digits, "0b" and binary
\* digits, "0" and more octal digits, and any other digit string as base 10;
\* base 0 for an argument of none of these forms.
StatedLiteral(a) ==
  LET r1 == SubSeq(a, 2, Len(a))
      r2 == SubSeq(a, 3, Len(a))
  IN  IF Len(a) > 2 /\ a[1] = 48 /\ a[2] = 120 /\ IsDigits(r2, 16)
        THEN [base |-> 16, digits |-> r2]
      ELSE IF Len(a) > 2 /\ a[1] = 48 /\ a[2] = 98 /\ IsDigits(r2, 2)
        THEN [base |-> 2, digits |-> r2]
      ELSE IF Len(a) > 1 /\ a[1] = 48 /\ IsDigits(r1, 8)
        THEN [base |-> 8, digits |-> r1]
      ELSE IF Len(a) > 0 /\ IsDigits(a, 10)
        THEN [base |-> 10, digits |-> a]
      ELSE [base |-> 0, digits |-> <<>>]

\* C3 as stated: for a literal of one of the listed forms with value
\* v <= 0xFFFF the answer is v in decimal.  (Fails: "09" is a digit string
\* that is not "0" and octal digits, so base 10 by the list, value 9; the
\* answer is "ARGUMENT ERROR".)
C3_AnyOtherDigitStringIsDecimal ==
  LET lit == StatedLiteral(DecArg)
  IN  (DecCall /\ lit.base # 0 /\ ValueOf(lit.digits, lit.base) <= 65535)
        => (ret = 0 /\ IsDecimalOf(Response, ValueOf(lit.digits, lit.base)))

\* The examples of C3: 0x10, 0b101, 010, 65535, 0 and their answers.
DecExamples ==
  {<<<<48, 120, 49, 48>>, <<49, 54>>>>,
   <<<<48, 98, 49, 48, 49>>, <<53>>>>,
   <<<<48, 49, 48>>, <<56>>>>,
   <<<<54, 53, 53, 51, 53>>, <<54, 53, 53, 51, 53>>>>,
   <<<<48>>, <<48>>>>}

\* C3, amended: a leading "0" with anything after it selects base 8 (or 16, 2
\* for "0x", "0b"), and base 10 is a digit string that is "0" or does not
\* start with "0"; for such a literal of value v <= 0xFFFF the answer is v in
\* decimal, without prefix or leading zeros; the listed examples hold.
C3_DecConverts ==
  /\ (DecCall /\ WellFormed(DecArg)
        /\ ValueOf(LitRest(DecArg), LitPrefix(DecArg).base) <= 65535)
       => /\ ret = 0
          /\ IsDecimalOf(Response, ValueOf(LitRest(DecArg), LitPrefix(DecArg).base))
  /\ \A e \in DecExamples : (DecCall /\ DecArg = e[1]) => Response = e[2]

\* `dec 0x10`, `dec 0b101`, `dec 010`, `dec 65535`, `dec 0` have been answered
\* with 16, 5, 8, 65535, 0 (here: a hexadecimal literal answered with "16").
C3_Witness ==
  /\ DecCall /\ DecArg = <<48, 120, 49, 48>>
  /\ ret = 0 /\ Response = <<49, 54>>
  /\ OutPrev = Fill(90, MSG_BUFFER_LENGTH)

\* C4: an argument that is not a prefix followed by one or more digits of its
\* base is answered with "ARGUMENT ERROR".  (Fails: "+5", " 5", "-0",
\* "0x0x10" are answered with a number.)
C4_MalformedRejected ==
  (DecCall /\ ~WellFormed(DecArg)) => (ret = 0 /\ Response = ArgumentError)

\* C5: an input shorter than MSG_BUFFER_LENGTH whose command word is none of
\* mac, id, status, dec returns 1 and leaves the caller's buffer unchanged,
\* whether the word ends at the first space/tab or at the first white space.
C5_UnknownCommand ==
  \A W \in {SplitChars, WhiteSpace} :
    (Returned /\ Len(InMsg) < MSG_BUFFER_LENGTH /\ WordOf(InMsg, W) \notin KnownWords)
      => (ret = 1 /\ OutMsg = OutPrev)

\* "foobar" has returned 1 over a buffer that held an earlier response.
C5_Witness ==
  /\ Returned /\ InMsg = <<102, 111, 111, 98, 97, 114>>
  /\ ret = 1 /\ OutPrev = Fill(35, MSG_BUFFER_LENGTH - 1) \o <<0>>

\* The input with its command word in lower case.
LowerWordInput(s) ==
  LET k == FirstIn(s, SplitChars)
  IN  LowerCase(SubSeq(s, 1, k - 1)) \o SubSeq(s, k, Len(s))

\* The token of each command word.
TokenOf(w) ==
  CASE w = <<109, 97, 99>> -> "COMMAND_MAC"
    [] w = <<105, 100>> -> "COMMAND_ID"
    [] w = <<115, 116, 97, 116, 117, 115>> -> "COMMAND_STATUS"
    [] w = <<100, 101, 99>> -> "COMMAND_DEC"

\* C6: for every case variation of a known command word the token, the
\* status and the response are those of the all-lower-case word with the
\* same argument.
C6_CaseInsensitive ==
  (Returned /\ WordOf(InMsg, SplitChars) \in KnownWords)
    => LET low == LowerWordInput(InMsg)
           ref == ProcessCommand(low, OutPrev, ext)
       IN  /\ Len(InMsg) < MSG_BUFFER_LENGTH
                => Cmd.key = TokenOf(WordOf(InMsg, SplitChars))
           /\ Cmd.key = ParseInput(low, InitCommand).cmd.key
           /\ ret = ref.status
           /\ OutMsg = ref.out

\* "sTaTuS" with an argument has been answered.
C6_Witness ==
  /\ Returned /\ ret = 0
  /\ Len(InMsg) > 7 /\ SubSeq(InMsg, 1, 6) = <<115, 84, 97, 84, 117, 83>>
  /\ Cmd.key = "COMMAND_STATUS"

\* C10: status and, on success, all MSG_BUFFER_LENGTH bytes of the caller's
\* buffer are those of the same call made over a zeroed buffer, whatever the
\* buffer and the locals held before: the response, then only zero bytes.
C10_IndependentOfPriorOutput ==
  Returned
    => LET ref == ProcessCommand(InMsg, Zeros(MSG_BUFFER_LENGTH), ext)
       IN  /\ ret = ref.status
           /\ ret = 0 => /\ OutMsg = ref.out
                         /\ StrLen(OutMsg) <= MSG_BUFFER_LENGTH - 1
                         /\ OutMsg = Padded(Response)

\* A successful call has written a short response over a buffer that held
\* MSG_BUFFER_LENGTH non-zero bytes.
C10_Witness ==
  /\ Returned /\ ret = 0
  /\ OutPrev = Fill(90, MSG_BUFFER_LENGTH)
  /\ Response = ArgumentError

---------------------------------------------------------------------------
(* SpecScan: one call of parse_input, the scan taken one iteration at a time *)

\* Characters of the exhaustively enumerated inputs: a D space \t \n.
ScanAlphabet == {97, 68, 32, 9, 10}

ShortInputs == UNION {[1..n -> ScanAlphabet] : n \in 0..MaxScanLen}

\* Inputs at and around the capacity that split early, late, or never.
EdgeInputs ==
  UNION {{Fill(65, n),
          <<97, 32>> \o Fill(66, n - 2),
          Fill(97, n - 2) \o <<9, 66>>,
          Fill(97, n - 1) \o <<32>>,
          <<32>> \o Fill(32, n - 1)}
         : n \in (MSG_BUFFER_LENGTH - 2)..(MSG_BUFFER_LENGTH + 1)}

ScanInputs ==
  ShortInputs \cup EdgeInputs
  \cup {w \o t : w \in (UNION {CaseVariants(k) : k \in KnownWords}) \cup UnknownWords,
                 t \in Tails}

\* What the Command can hold when parse_input is entered: the result of
\* init_Command, or the token and text of an earlier line.
PriorCmd ==
  {InitCommand,
   [key      |-> "COMMAND_DEC",
    command  |-> Fill(90, MSG_BUFFER_LENGTH),
    argument |-> Fill(90, MSG_BUFFER_LENGTH)]}

ProcIdle ==
  /\ out_msg = Pack(<<>>) /\ out_prev = Pack(<<>>) /\ str_buffer = Pack(<<>>)
  /\ command_result = 0 /\ ret = 0 /\ ext = NoExt

ProcVars == <<out_msg, out_prev, str_buffer, command_result, ret, ext>>

InitScan ==
  /\ pc = "p_call"
  /\ \/ /\ in_msg \in {Pack(s) : s \in ScanInputs}
        /\ in_null = FALSE /\ out_null = FALSE
     \/ /\ in_msg = Pack(<<>>)
        /\ \E n \in {<<TRUE, FALSE>>, <<FALSE, TRUE>>, <<TRUE, TRUE>>} :
              in_null = n[1] /\ out_null = n[2]
  /\ cmd \in {PackCmd(c) : c \in PriorCmd}
  /\ cmd_prev = cmd
  /\ parse_ret = 0
  /\ ScanIdle /\ ProcIdle /\ MacIdle

\* if (!in_msg || !out_cmd) return -1;
ParseNull ==
  /\ pc = "p_call" /\ (in_null \/ out_null)
  /\ parse_ret' = -1 /\ pc' = "p_done"
  /\ UNCHANGED <<cmd, CallerVars, ScanVars, ProcVars, MacVars>>

\* if (len >= MSG_BUFFER_LENGTH) return -2;
ParseTooLong ==
  /\ pc = "p_call" /\ ~in_null /\ ~out_null
  /\ TooLong(Len(InMsg))
  /\ parse_ret' = -2 /\ pc' = "p_done"
  /\ UNCHANGED <<cmd, CallerVars, ScanVars, ProcVars, MacVars>>

\* init_Command(out_cmd) and the locals' initial values.
ParseBegin ==
  /\ pc = "p_call" /\ ~in_null /\ ~out_null
  /\ ~TooLong(Len(InMsg))
  /\ LET st == ScanStart(InitCommand)
     IN  /\ cmd' = PackCmd(st.cmd) /\ at_dst' = st.at_dst
         /\ has_split' = st.has_split /\ target' = st.target
  /\ at_src' = -1
  /\ pc' = "p_scan"
  /\ UNCHANGED <<parse_ret, CallerVars, ProcVars, MacVars>>

\* One iteration of while (++at_src < len) { switch ... }.
ScanIter ==
  /\ pc = "p_scan" /\ at_src + 1 < Len(InMsg)
  /\ at_src' = at_src + 1
  /\ LET st == ScanStep([cmd |-> Cmd, at_dst |-> at_dst,
                         has_split |-> has_split, target |-> target],
                        InMsg[at_src' + 1])
     IN  /\ cmd' = PackCmd(st.cmd) /\ at_dst' = st.at_dst
         /\ has_split' = st.has_split /\ target' = st.target
  /\ UNCHANGED <<pc, parse_ret, CallerVars, ProcVars, MacVars>>

\* The loop condition fails.
ScanEnd ==
  /\ pc = "p_scan" /\ ~(at_src + 1 < Len(InMsg))
  /\ at_src' = at_src + 1
  /\ pc' = "p_match"
  /\ UNCHANGED <<cmd, parse_ret, at_dst, has_split, target, CallerVars, ProcVars, MacVars>>

\* The strcmp chain; return 0.
ParseMatch ==
  /\ pc = "p_match"
  /\ cmd' = PackCmd([Cmd EXCEPT !.key = MatchKey(Cmd.command, @)])
  /\ parse_ret' = 0 /\ pc' = "p_done"
  /\ UNCHANGED <<CallerVars, ScanVars, ProcVars, MacVars>>

NextScan ==
  \/ ParseNull \/ ParseTooLong \/ ParseBegin \/ ScanIter \/ ScanEnd \/ ParseMatch

SpecScan == InitScan /\ [][NextScan]_vars

\* parse_input has returned from a call with both pointers present.
Parsed == pc = "p_done" /\ ~in_null /\ ~out_null

\* C7 as stated: name is the lower-cased text before the first white-space
\* character, argument everything after that character.  (Fails: the scan
\* splits at space and tab only; "\n" stays in the name.)
C7_SplitsAtWhiteSpace ==
  (Parsed /\ Len(InMsg) < MSG_BUFFER_LENGTH)
    => /\ Cmd.command = Padded(WordOf(InMsg, WhiteSpace))
       /\ Cmd.argument = Padded(ArgOf(InMsg, WhiteSpace))

\* C7, amended: name is the lower-cased text before the first space or tab;
\* argument is every character after that first space or tab, verbatim, with
\* any further spaces and tabs; the first space or tab is in neither; with no
\* space or tab the argument is empty and name is the whole lower-cased input.
\* Every other character, "\n" included, is copied like a letter.
C7_SplitsAtSpaceOrTab ==
  (Parsed /\ Len(InMsg) < MSG_BUFFER_LENGTH)
    => /\ parse_ret = 0
       /\ Cmd.command = Padded(WordOf(InMsg, SplitChars))
       /\ Cmd.argument = Padded(ArgOf(InMsg, SplitChars))
       /\ (\A i \in 1..Len(InMsg) : InMsg[i] \notin SplitChars)
            => (Cmd.argument = Zeros(MSG_BUFFER_LENGTH)
                /\ CStr(Cmd.command) = LowerCase(InMsg))

\* "D a\t" has been tokenized over a Command that held an earlier line:
\* name "d", argument "a\t".
C7_Witness ==
  /\ Parsed /\ InMsg = <<68, 32, 97, 9>>
  /\ CmdPrev.key = "COMMAND_DEC"
  /\ CStr(Cmd.command) = <<100>> /\ CStr(Cmd.argument) = <<97, 9>>

\* C9: every write of the scan lands at an index of at most
\* MSG_BUFFER_LENGTH - 2, the last byte of both arrays stays zero from
\* init_Command on, so both hold a terminated string when parse_input returns;
\* for an input of length >= MSG_BUFFER_LENGTH the Command is not written.
C9_ScanStaysInBounds ==
  /\ (pc = "p_scan" /\ at_src + 1 < Len(InMsg)
        /\ ~(IsSplitChar(InMsg[at_src + 2]) /\ has_split = 0))
       => at_dst <= MSG_BUFFER_LENGTH - 2
  /\ pc \in {"p_scan", "p_match"}
       => /\ at_dst <= MSG_BUFFER_LENGTH - 1
          /\ Cmd.command[MSG_BUFFER_LENGTH] = 0
          /\ Cmd.argument[MSG_BUFFER_LENGTH] = 0
          /\ \A i \in 1..MSG_BUFFER_LENGTH :
               /\ i > at_src + 1 => (Cmd.command[i] = 0 /\ Cmd.argument[i] = 0)
               /\ (target = "command" /\ i > at_dst) => Cmd.command[i] = 0
               /\ (target = "argument" /\ i > at_dst) => Cmd.argument[i] = 0
  /\ (Parsed /\ Len(InMsg) < MSG_BUFFER_LENGTH)
       => /\ StrLen(Cmd.command) <= MSG_BUFFER_LENGTH - 1
          /\ StrLen(Cmd.argument) <= MSG_BUFFER_LENGTH - 1
          /\ Cmd.command[MSG_BUFFER_LENGTH] = 0
          /\ Cmd.argument[MSG_BUFFER_LENGTH] = 0
  /\ (Parsed /\ Len(InMsg) >= MSG_BUFFER_LENGTH)
       => (parse_ret = -2 /\ Cmd = CmdPrev)

\* An input of MSG_BUFFER_LENGTH - 1 characters with no space or tab has
\* filled name up to its last data byte.
C9_Witness ==
  /\ Parsed /\ Len(InMsg) = MSG_BUFFER_LENGTH - 1
  /\ at_dst = MSG_BUFFER_LENGTH - 1 /\ has_split = 0
  /\ StrLen(Cmd.command) = MSG_BUFFER_LENGTH - 1

---------------------------------------------------------------------------
(* SpecMac: one call of mac_to_string, one loop iteration at a time *)

\* Byte values of the enumerated addresses.
MacBytes == {1, 171, 240}

MacInputs == [1..6 -> MacBytes] \cup MacValues

InitMac ==
  /\ pc = "m_call"
  /\ \/ /\ mac \in MacInputs
        /\ in_null = FALSE /\ out_null = FALSE
     \/ /\ mac = <<0, 0, 0, 0, 0, 0>>
        /\ \E n \in {<<TRUE, FALSE>>, <<FALSE, TRUE>>, <<TRUE, TRUE>>} :
              in_null = n[1] /\ out_null = n[2]
  /\ mac_out \in {Pack(b) : b \in PriorOut}
  /\ mac_prev = mac_out
  /\ mac_i = 0 /\ mac_at = 0
  /\ in_msg = Pack(<<>>) /\ cmd = PackCmd(InitCommand) /\ cmd_prev = cmd /\ parse_ret = 0
  /\ ScanIdle /\ ProcIdle

ParseVars == <<in_msg, in_null, out_null, cmd, cmd_prev, parse_ret>>

\* if (!mac || !out) return;
MacNull ==
  /\ pc = "m_call" /\ (in_null \/ out_null)
  /\ pc' = "m_done"
  /\ UNCHANGED <<MacVars, ParseVars, ScanVars, ProcVars>>

\* int at = 0; i = 0
MacBegin ==
  /\ pc = "m_call" /\ ~in_null /\ ~out_null
  /\ mac_at' = 0 /\ mac_i' = 0
  /\ pc' = "m_loop"
  /\ UNCHANGED <<mac, mac_out, mac_prev, ParseVars, ScanVars, ProcVars>>

\* One iteration of for (i = 0; i < 6; ++i).
MacIter ==
  /\ pc = "m_loop" /\ mac_i < 6
  /\ LET r == MacStep(MacOut, 0, mac_at, mac_i, mac[mac_i + 1])
     IN  mac_out' = Pack(r.out) /\ mac_at' = r.at
  /\ mac_i' = mac_i + 1
  /\ UNCHANGED <<pc, mac, mac_prev, ParseVars, ScanVars, ProcVars>>

\* The loop condition fails; return.
MacEnd ==
  /\ pc = "m_loop" /\ ~(mac_i < 6)
  /\ pc' = "m_done"
  /\ UNCHANGED <<MacVars, ParseVars, ScanVars, ProcVars>>

NextMac == MacNull \/ MacBegin \/ MacIter \/ MacEnd

SpecMac == InitMac /\ [][NextMac]_vars

\* The upper-case hexadecimal digit of a nibble.
UpperHex(n) == IF n < 10 THEN 48 + n ELSE 55 + n

\* C8: mac_to_string writes exactly 17 characters, six groups of two
\* upper-case hexadecimal digits, high nibble first, with a ':' between
\* groups and none after the last; what it writes depends on the six bytes
\* only, and the bytes after the 17th keep their value.
C8_MacFormat ==
  (pc = "m_done" /\ ~in_null /\ ~out_null)
    => /\ mac_at = 17
       /\ \A k \in 0..5 :
            /\ MacOut[3 * k + 1] = UpperHex(mac[k + 1] \div 16)
            /\ MacOut[3 * k + 2] = UpperHex(mac[k + 1] % 16)
       /\ \A k \in 0..4 : MacOut[3 * k + 3] = 58
       /\ Cardinality({i \in 1..17 : MacOut[i] = 58}) = 5
       /\ \A i \in 18..Len(MacOut) : MacOut[i] = MacPrev[i]
       /\ mac = <<1, 2, 171, 205, 239, 0>>
            => SubSeq(MacOut, 1, 17) =
                 <<48, 49, 58, 48, 50, 58, 65, 66, 58, 67, 68, 58, 69, 70, 58, 48, 48>>

\* 01:02:AB:CD:EF:00 has been formatted into an array of non-zero bytes.
C8_Witness ==
  /\ pc = "m_done" /\ mac = <<1, 2, 171, 205, 239, 0>>
  /\ MacPrev = Fill(90, MSG_BUFFER_LENGTH)
  /\ mac_at = 17 /\ MacOut[17] = 48 /\ MacOut[18] = 90

====
